---- MODULE Spec2Model ----
(***************************************************************************)
(* State-machine model of rpcserver.c: one accepted connection served by   *)
(* handle_client (handshake, then the dispatcher loop and its handlers),   *)
(* the client on the other end of the TCP stream, and the child processes  *)
(* the EXEC handler spawns.                                                *)
(*                                                                         *)
(* Numbers keep their C width.  A u32 is a pair and a u64 a 4-tuple of     *)
(* 16-bit limbs, least significant limb first, so that 0x88888800,         *)
(* 0xffffffff and 2^61 are exact and little-endian reinterpretation of     *)
(* wire bytes (a u64 payload read as a frame header) is computed, not      *)
(* assumed.                                                                *)
(*                                                                         *)
(* The TCP stream is a sequence of fields [w |-> bytes, v |-> content].    *)
(* A field's content is a limb tuple (2 bytes per limb), a byte tuple      *)
(* (1 byte per element) or, for wide opaque buffers, a one-element tag.    *)
(* A read takes a byte count, not a field count: it splits fields when the *)
(* stream is misaligned.  Each field also records whether a frame of the   *)
(* client starts at it.                                                    *)
(***************************************************************************)
EXTENDS Integers, Sequences, FiniteSets, TLC

(* ------------------------------ bounds --------------------------------- *)

\* frames the client sends on the connection
MaxFrames == 2

\* EXEC frames among them
MaxExecs == 1

\* fields of a frame the client sends before it gives up on the frame
MaxCut == 8

\* bursts of output a child writes to its terminal
MaxBursts == 1

\* bytes of valid memory reachable by PEEK/POKE (addresses 1..MemSize)
MemSize == 2

\* strings a client sends after a count of an EXEC request
MaxStrs == 2

(* ------------------------ program constants ---------------------------- *)

CMD_EXEC == 0
CMD_DLOPEN == 1
CMD_DLCLOSE == 2
CMD_DLSYM == 3
CMD_CALL == 4
CMD_PEEK == 5
CMD_POKE == 6
CMD_REPLY_ERROR == 7
CMD_REPLY_PEEK == 8
CMD_GET_DUMMY_BLOCK == 9
CMD_CLOSE == 10
CMD_REPLY_POKE == 11

CMD_EXEC_CHUNK_TYPE_STDOUT == 0
CMD_EXEC_CHUNK_TYPE_EXITCODE == 1

\* 0x12345678
MAGIC == <<22136, 4660>>

\* 0x88888800
SERVER_MAGIC_VERSION == <<34816, 34952>>

\* 0xffffffff
INVALID_PID == <<65535, 65535>>

UNAME_VERSION_LEN == 256
MAX_PATH_LEN == 1024

\* sizeof(protocol_message_t), sizeof(cmd_exec_chunk_t)
HeaderSize == 8
ChunkHeaderSize == 8

\* sizeof(cmd_dlopen_t), sizeof(cmd_dlclose_t), sizeof(cmd_dlsym_t)
DlopenSize == MAX_PATH_LEN + 4
DlcloseSize == 8
DlsymSize == 8 + MAX_PATH_LEN

\* sizeof(cmd_call_t), sizeof(cmd_peek_t), sizeof(cmd_poke_t): two u64
CallSize == 16
PeekSize == 16
PokeSize == 16

\* the largest arity handle_call's switch has a case for
MaxCallArity == 11

(* ------------------------- fixed-width numbers ------------------------- *)

LimbBase == 65536

N32(n) == <<n, 0>>
N64(n) == <<n, 0, 0, 0>>

\* a value read from a misaligned or opaque part of the stream
Junk == <<>>

IsU32(x) == Len(x) = 2
IsU64(x) == Len(x) = 4

\* the number fits one limb: every higher limb is zero
IsSmall(x) == Len(x) >= 1 /\ \A k \in 2..Len(x) : x[k] = 0
Low(x) == x[1]

\* (count + 1) in u32 arithmetic
Inc32(x) ==
  IF x[1] + 1 < LimbBase THEN <<x[1] + 1, x[2]>>
  ELSE IF x[2] + 1 < LimbBase THEN <<0, x[2] + 1>>
  ELSE <<0, 0>>

\* sizeof(u64) * x in 64-bit size_t arithmetic: the product modulo 2^64
Mul8(x) ==
  LET t1 == x[1] * 8
      t2 == x[2] * 8 + (t1 \div LimbBase)
      t3 == x[3] * 8 + (t2 \div LimbBase)
      t4 == x[4] * 8 + (t3 \div LimbBase)
  IN <<t1 % LimbBase, t2 % LimbBase, t3 % LimbBase, t4 % LimbBase>>

\* the bits of sizeof(u64) * x that do not fit 64 bits (0 when it fits)
Mul8Carry(x) ==
  LET t1 == x[1] * 8
      t2 == x[2] * 8 + (t1 \div LimbBase)
      t3 == x[3] * 8 + (t2 \div LimbBase)
      t4 == x[4] * 8 + (t3 \div LimbBase)
  IN t4 \div LimbBase

\* 0xFFFFFFFF
Max32 == <<LimbBase - 1, LimbBase - 1>>

\* lines 242-243, 263-264: the pointer slots of malloc(argv_size *
\* sizeof(char *)) with argv_size = (count + 1) * sizeof(char *): count + 1
\* is computed in 32 bits, the products in the 64 bits of size_t
VecSlots(count) ==
  IF IsU32(count) THEN Mul8(Inc32(count) \o <<0, 0>>) ELSE Junk

\* lines 252-253, 273-274: the bytes of malloc(str_size * sizeof(char))
\* with str_size = (len + 1) * sizeof(char): len + 1 is computed in 32 bits
StrSize(len) == IF IsU32(len) THEN Inc32(len) ELSE Junk

\* what malloc(n) may return: for n = 0 a null pointer or a pointer to no
\* usable byte
MallocResults(n) == IF n = N32(0) THEN {"null", "block"} ELSE {"block"}

\* i < x for a loop index i and a u32 bound x
Below(i, x) == ~IsSmall(x) \/ i < Low(x)

(* ----------------------------- the stream ------------------------------ *)

\* s marks the first field of a frame as the client sent it: the offsets
\* at which the client's frames start
Fld(w, v) == [w |-> w, v |-> v, s |-> FALSE]

\* the stream read so far ended on a frame boundary
AlignedAt(q) == q = <<>> \/ Head(q).s

IsLimbs(f) == Len(f.v) * 2 = f.w
IsBytes(f) == Len(f.v) = f.w

RECURSIVE Avail(_)
Avail(q) == IF q = <<>> THEN 0 ELSE Head(q).w + Avail(Tail(q))

\* n bytes of field f starting at byte offset off
Part(f, off, n) ==
  IF IsLimbs(f) /\ off % 2 = 0 /\ n % 2 = 0
  THEN Fld(n, SubSeq(f.v, (off \div 2) + 1, (off + n) \div 2))
  ELSE IF IsBytes(f) THEN Fld(n, SubSeq(f.v, off + 1, off + n))
  ELSE Fld(n, Junk)

\* the first n bytes of q; needs Avail(q) >= n
RECURSIVE Taken(_, _)
Taken(q, n) ==
  IF n = 0 THEN <<>>
  ELSE IF Head(q).w <= n
  THEN <<Head(q)>> \o Taken(Tail(q), n - Head(q).w)
  ELSE <<Part(Head(q), 0, n)>>

\* what remains of q after its first n bytes; needs Avail(q) >= n
RECURSIVE Rest(_, _)
Rest(q, n) ==
  IF n = 0 THEN q
  ELSE IF Head(q).w <= n
  THEN Rest(Tail(q), n - Head(q).w)
  ELSE <<Part(Head(q), n, Head(q).w - n)>> \o Tail(q)

\* the first n bytes of q and what remains; needs Avail(q) >= n
Take(q, n) == <<Taken(q, n), Rest(q, n)>>

\* the taken fields as one little-endian number, Junk when they are none
RECURSIVE Limbs(_)
Limbs(fs) ==
  IF fs = <<>> THEN <<>>
  ELSE IF ~IsLimbs(Head(fs)) THEN Junk
  ELSE CHOOSE x \in {IF Tail(fs) # <<>> /\ r = Junk THEN Junk ELSE Head(fs).v \o r :
                      r \in {Limbs(Tail(fs))}} : TRUE

\* the taken fields as a byte string, Junk when they are none
RECURSIVE Bytes(_)
Bytes(fs) ==
  IF fs = <<>> THEN <<>>
  ELSE IF ~IsBytes(Head(fs)) THEN Junk
  ELSE CHOOSE x \in {IF Tail(fs) # <<>> /\ r = Junk THEN Junk ELSE Head(fs).v \o r :
                      r \in {Bytes(Tail(fs))}} : TRUE

(* ------------------------------- state --------------------------------- *)

VARIABLES
  apple,         \* TRUE: the build with __APPLE__ defined
  pc,            \* where the connection's thread is in handle_client
  h,             \* the locals of the handler in progress
  disconnected,  \* handle_client's local of that name
  sockfd,        \* the connection's descriptor: "open" or "closed"
  inq,           \* client -> server bytes not yet received by the server
  peer,          \* the client's end: "open", "closed" (FIN) or "reset"
  hsBytes,       \* bytes the handshake has sent
  out,           \* what the server has sent since the last handler returned,
                 \* each item tagged with the code that sent it
  nsent,         \* frames the client has sent
  nexec,         \* EXEC frames among them
  hdrReads,      \* header reads the dispatcher has started
  lastCmd,       \* cmd.cmd_type of the header last dispatched (-1: none, or its handler returned)
  calls,         \* the invocations handle_call has made for this command
  mem,           \* the valid part of the process's address space
  procs,         \* the children: pid -> "none", "running", "hupwait" (runs
                 \* until its terminal is hung up), "zombie", "reaped"
  reapers,       \* pids a thread_waitpid thread was created for
  bursts,        \* output bursts the current child has written
  ptyOut,        \* bursts readable on the PTY master
  other,         \* the socket of a connection main accepted while the number
                 \* in master was free: "none", "open", "closed"
  acked,         \* <<address, bytes>> of the last POKE answered REPLY_POKE
                 \* with no POKE after it, or <<>>
  asInput        \* the client sent the bytes now in inq as terminal input:
                 \* after the pid of an interactive EXEC and before its
                 \* EXITCODE chunk

vars == <<apple, pc, h, disconnected, sockfd, inq, peer, hsBytes, out, nsent, nexec,
          hdrReads, lastCmd, calls, mem, procs, reapers, bursts, ptyOut,
          other, acked, asInput>>

Pids == 1..MaxExecs

\* the locals of a handler at its entry (lines 224-234, 468-471, 534-537),
\* and what the handler has done so far: closes: close() calls on the number
\* in master; fromPty, fromSock, toPty: the bytes the pump has read from the
\* PTY master, received from the socket, written to the PTY master;
\* slots: pointer slots of the vector allocated for argv or envp; cap: bytes
\* of the string buffer allocated last; vecWrite: the index of the vector
\* written last (-1: none); strEnd: how many bytes of the string buffer
\* have been written
H0 ==
  [cmd |-> -1, payload |-> "none", result |-> FALSE,
   background |-> Junk, argc |-> Junk, envc |-> Junk, i |-> 0, len |-> Junk,
   pid |-> INVALID_PID, master |-> "none", rdM |-> FALSE, rdS |-> FALSE,
   nbytes |-> 0, data |-> Junk, address |-> Junk, size |-> Junk,
   spawned |-> FALSE, reaped |-> FALSE, stage |-> "none",
   closes |-> 0, fromPty |-> <<>>, fromSock |-> <<>>, toPty |-> <<>>,
   slots |-> Junk, cap |-> Junk, vecWrite |-> -1, strEnd |-> 0]

(* ------------------------------ the client ----------------------------- *)

\* a frame header with magic m and tag c
Frame(m, c) == <<[Fld(4, m) EXCEPT !.s = TRUE], Fld(4, N32(c))>>
Hdr(c) == Frame(MAGIC, c)

\* a length-prefixed string of the EXEC payload
ArgBytes == <<47, 120>>
Str == <<Fld(4, N32(Len(ArgBytes))), Fld(Len(ArgBytes), ArgBytes)>>

RECURSIVE Rep(_, _)
Rep(s, n) == IF n = 0 THEN <<>> ELSE s \o Rep(s, n - 1)

ExecFrame(bg, argc, envc) ==
  Hdr(CMD_EXEC) \o <<Fld(1, <<bg>>), Fld(4, N32(argc))>> \o Rep(Str, argc)
    \o <<Fld(4, N32(envc))>> \o Rep(Str, envc)

LibName == <<1>>
SymName == <<2>>
LibHandle == N64(7)
FuncAddr == N64(9)
RTLD_NOW == 2

DlopenFrame == Hdr(CMD_DLOPEN) \o <<Fld(MAX_PATH_LEN, LibName), Fld(4, N32(RTLD_NOW))>>
DlcloseFrame(lib) == Hdr(CMD_DLCLOSE) \o <<Fld(8, lib)>>
DlsymFrame == Hdr(CMD_DLSYM) \o <<Fld(8, LibHandle), Fld(MAX_PATH_LEN, SymName)>>

\* 2^61 = 0x2000000000000000
TwoTo61 == <<0, 0, 0, 8192>>

\* a CALL announcing argc arguments and carrying nargs argument words
CallFrame(argc, nargs) ==
  Hdr(CMD_CALL) \o <<Fld(8, FuncAddr), Fld(8, argc)>>
    \o [k \in 1..nargs |-> Fld(8, N64(k))]

PokeBytes == <<171, 205>>

PeekFrame(a, n) == Hdr(CMD_PEEK) \o <<Fld(8, N64(a)), Fld(8, N64(n))>>
PokeFrame(a) ==
  Hdr(CMD_POKE) \o <<Fld(8, N64(a)), Fld(8, N64(Len(PokeBytes)))>>
    \o [k \in 1..Len(PokeBytes) |-> Fld(1, <<PokeBytes[k]>>)]

\* 0xDEADBEEF
BadMagic == <<48879, 57005>>
UnknownTag == 12

ClientFrames ==
  {ExecFrame(0, 0, 0), ExecFrame(0, 1, 0), ExecFrame(1, 1, 1)}
  \cup {DlopenFrame, DlcloseFrame(N64(0)), DlsymFrame}
  \cup {CallFrame(N64(0), 0), CallFrame(N64(2), 2),
        CallFrame(N64(MaxCallArity + 1), MaxCallArity + 1),
        CallFrame(TwoTo61, 1)}
  \cup {PeekFrame(1, Len(PokeBytes)), PeekFrame(0, 1)}
  \cup {PokeFrame(1), PokeFrame(0)}
  \cup {Hdr(CMD_GET_DUMMY_BLOCK), Hdr(CMD_CLOSE), Hdr(UnknownTag),
        Frame(BadMagic, CMD_EXEC)}

IsExecFrame(f) == f[2].v = N32(CMD_EXEC) /\ f[1].v = MAGIC

\* an interactive EXEC has sent the pid of its child and not yet the
\* EXITCODE chunk (lines 282-353)
AwaitingExitCode ==
  /\ h.cmd = CMD_EXEC /\ h.spawned /\ h.background = <<0>>
  /\ pc \in {"x_select", "x_master", "x_chunkhdr", "x_chunkdata", "x_sock",
             "x_write", "x_wait", "x_exithdr", "x_exitdata"}

\* the frames the client may send next
Sendable == {f \in ClientFrames : IsExecFrame(f) => nexec < MaxExecs}

\* the client sends one whole frame, once the server has taken the last one
ClientSend ==
  /\ peer = "open"
  /\ nsent < MaxFrames
  /\ inq = <<>>
  /\ \E f \in Sendable :
       /\ inq' = inq \o f
       /\ nexec' = IF IsExecFrame(f) THEN nexec + 1 ELSE nexec
  /\ nsent' = nsent + 1
  /\ asInput' = AwaitingExitCode
  /\ UNCHANGED <<hsBytes, apple, other, acked, pc, h, disconnected, sockfd, peer, out, hdrReads, lastCmd,
                 calls, mem, procs, reapers, bursts, ptyOut>>

\* the client sends the first fields of a frame and closes
ClientSendPart ==
  /\ peer = "open"
  /\ nsent < MaxFrames
  /\ inq = <<>>
  /\ \E f \in Sendable : \E k \in 1..(Len(f) - 1) :
       /\ k <= MaxCut
       /\ inq' = inq \o SubSeq(f, 1, k)
       /\ nexec' = IF IsExecFrame(f) /\ k >= 2 THEN nexec + 1 ELSE nexec
  /\ nsent' = nsent + 1
  /\ asInput' = AwaitingExitCode
  /\ peer' = "closed"
  /\ UNCHANGED <<hsBytes, apple, other, acked, pc, h, disconnected, sockfd, out, hdrReads, lastCmd,
                 calls, mem, procs, reapers, bursts, ptyOut>>

\* the client closes its end in an orderly way
ClientClose ==
  /\ peer = "open"
  /\ peer' = "closed"
  /\ UNCHANGED <<hsBytes, apple, asInput, other, acked, pc, h, disconnected, sockfd, inq, out, nsent,
                 nexec, hdrReads, lastCmd, calls, mem, procs, reapers, bursts, ptyOut>>

\* the connection is reset: unread bytes are lost, sends fail from now on
ClientReset ==
  /\ peer \in {"open", "closed"}
  /\ peer' = "reset"
  /\ inq' = <<>>
  /\ UNCHANGED <<hsBytes, apple, asInput, other, acked, pc, h, disconnected, sockfd, out, nsent, nexec,
                 hdrReads, lastCmd, calls, mem, procs, reapers, bursts, ptyOut>>

(* ----------------------- byte-transfer primitives ---------------------- *)

\* sendall succeeds unless the connection was reset
SendOk == peer # "reset"

\* recvall of n bytes returns: the bytes are there, or they never will be
RecvReady(n) == Avail(inq) >= n \/ peer # "open"
RecvOk(n) == Avail(inq) >= n

\* recvall_ext reports an orderly close that left no partial buffer
RecvDisconnected == peer = "closed" /\ Avail(inq) = 0

\* the connection thread sends w bytes with content v
\* tagged with the command being handled and the header reads so far
\* k: "raw" for bytes sent by sendall directly, "reply" for a frame header
\* sent by send_reply
Emit(w, v) ==
  Append(out, [w |-> w, v |-> v, by |-> h.cmd, at |-> hdrReads, k |-> "raw"])

(* ------------------------------ handshake ------------------------------ *)

\* everything but the connection thread's own variables
Env == <<apple, peer, nsent, nexec, hsBytes, procs, reapers, bursts, ptyOut,
         other, acked, asInput>>

\* mutant of HsStep: the result of the handshake's sends is not checked
HsStepUnchecked(ok, next) == next

\* CHECK(sendall(...)) in the handshake: on failure go to the error label
HsStep(ok, next) == IF ok THEN next ELSE "error"

\* lines 647-649: send SERVER_MAGIC_VERSION
HsMagic ==
  /\ pc = "hs_magic"
  /\ hsBytes' = IF SendOk THEN hsBytes + 4 ELSE hsBytes
  /\ pc' = HsStep(SendOk, "hs_name")
  /\ UNCHANGED <<apple, asInput, other, acked, peer, nsent, nexec, procs, reapers, bursts, ptyOut, h, disconnected,
                 sockfd, inq, out, hdrReads, lastCmd, calls, mem>>

\* lines 651-654: uname, then send UNAME_VERSION_LEN bytes of sysname
HsName ==
  /\ pc = "hs_name"
  /\ \E unameOk \in BOOLEAN :
       /\ hsBytes' = IF unameOk /\ SendOk THEN hsBytes + UNAME_VERSION_LEN ELSE hsBytes
       /\ pc' = HsStep(unameOk /\ SendOk, "ready")
  /\ UNCHANGED <<apple, asInput, other, acked, peer, nsent, nexec, procs, reapers, bursts, ptyOut, h, disconnected,
                 sockfd, inq, out, hdrReads, lastCmd, calls, mem>>

(* ------------------------------ dispatcher ----------------------------- *)

\* protocol_message_t as laid out on the wire: magic, then cmd_type
HeaderMagic(fs) ==
  LET x == Limbs(fs) IN IF Len(x) = 4 THEN SubSeq(x, 1, 2) ELSE Junk
HeaderCmd(fs) ==
  LET x == Limbs(fs) IN IF Len(x) = 4 THEN SubSeq(x, 3, 4) ELSE Junk

\* cmd_type as the switch sees it (-1: no enumerator has the value)
CmdOf(c) == IF IsU32(c) /\ IsSmall(c) THEN Low(c) ELSE -1

\* the switch of handle_client: the handler a tag is routed to
HandlerOf(c) ==
  CASE c = CMD_EXEC -> "x_bg"
    [] c = CMD_DLOPEN -> "dlopen_recv"
    [] c = CMD_DLSYM -> "dlsym_recv"
    [] c = CMD_CALL -> "call_recv"
    [] c = CMD_PEEK -> "peek_recv"
    [] c = CMD_POKE -> "poke_enter"
    [] c = CMD_GET_DUMMY_BLOCK -> "dummy"
    [] OTHER -> "none"

\* where the dispatcher goes on a header with a good magic
Route(c) ==
  IF c = CMD_CLOSE THEN "error"
  ELSE IF HandlerOf(c) # "none" THEN HandlerOf(c)
  ELSE "ready"

\* mutant of MagicOk: the magic is not checked
AnyMagicOk(m) == TRUE

\* CHECK(cmd.magic == MAGIC)
MagicOk(m) == m = MAGIC

\* lines 658-714: read one header, check the magic, switch on cmd_type
ReadHeader ==
  /\ pc = "ready"
  /\ RecvReady(HeaderSize)
  /\ hdrReads' = hdrReads + 1
  /\ IF RecvOk(HeaderSize)
     THEN \E t \in {Take(inq, HeaderSize)} :
          \E c \in {CmdOf(HeaderCmd(t[1]))} :
             /\ inq' = t[2]
             /\ disconnected' = FALSE
             /\ IF MagicOk(HeaderMagic(t[1]))
                THEN /\ pc' = Route(c)
                     /\ lastCmd' = c
                     /\ h' = IF HandlerOf(c) # "none"
                             THEN [H0 EXCEPT !.cmd = c, !.payload = "reading"]
                             ELSE h
                ELSE /\ pc' = "error"
                     /\ h' = h
                     /\ lastCmd' = lastCmd
     ELSE /\ inq' = <<>>
          /\ disconnected' = RecvDisconnected
          /\ pc' = "error"
          /\ h' = h
          /\ lastCmd' = lastCmd
  /\ UNCHANGED <<Env, sockfd, out, calls, mem>>

\* lines 672-673 and the like: the handler's return value is dropped
AfterHandler == "ready"

HandlerReturn ==
  /\ pc = "ret"
  /\ pc' = AfterHandler
  /\ h' = H0
  /\ out' = <<>>
  /\ calls' = <<>>
  /\ lastCmd' = -1
  /\ UNCHANGED <<Env, disconnected, sockfd, inq, hdrReads, mem>>

\* lines 717-726: close the socket unless the client was disconnected
CloseOnError(d) == ~d

ErrorExit ==
  /\ pc = "error"
  /\ sockfd' = IF CloseOnError(disconnected) THEN "closed" ELSE sockfd
  /\ pc' = "closed"
  /\ UNCHANGED <<Env, h, disconnected, inq, out, hdrReads, lastCmd, calls, mem>>

(* --------------------------- handler plumbing -------------------------- *)

\* a handler leaves through its error label with this result
Leave(ok) == [h EXCEPT !.result = ok]

\* receive n bytes into the handler: <<fields, rest>>
Got(n) == Take(inq, n)

\* a fixed-width string buffer as the handler interprets it
Opaque(fs) == IF Len(fs) = 1 THEN fs[1].v ELSE Junk

\* mutant of ReplyHeader: the header carries no magic
BareHeader(type) == N32(0) \o N32(type)

\* send_reply: a header with MAGIC and the reply tag
ReplyHeader(type) == MAGIC \o N32(type)

\* lines 201-208: send_reply(sockfd, type)
SendReply(type) ==
  Append(out, [w |-> HeaderSize, v |-> ReplyHeader(type), by |-> h.cmd,
               at |-> hdrReads, k |-> "reply"])

(* ---------------------- dlopen / dlsym / dummy block ------------------- *)

\* the loader: a handle for the one library, an address for the one symbol
Dlopen(name) == IF name = LibName THEN LibHandle ELSE N64(0)
Dlsym(lib, name) == IF lib = LibHandle /\ name = SymName THEN FuncAddr ELSE N64(0)

\* lines 409: recvall(cmd)
DlopenRecv ==
  /\ pc = "dlopen_recv"
  /\ RecvReady(DlopenSize)
  /\ IF RecvOk(DlopenSize)
     THEN \E t \in {Got(DlopenSize)} :
       /\ inq' = t[2]
       /\ h' = [h EXCEPT !.payload = "done",
                         !.data = Dlopen(Opaque(Take(t[1], MAX_PATH_LEN)[1]))]
       /\ pc' = "dlopen_send"
     ELSE inq' = <<>> /\ h' = Leave(FALSE) /\ pc' = "ret"
  /\ UNCHANGED <<Env, disconnected, sockfd, out, hdrReads, lastCmd, calls, mem>>

\* lines 411-414: dlopen, send the handle
DlopenSend ==
  /\ pc = "dlopen_send"
  /\ IF SendOk
     THEN out' = Emit(8, h.data) /\ h' = Leave(TRUE)
     ELSE out' = out /\ h' = Leave(FALSE)
  /\ pc' = "ret"
  /\ UNCHANGED <<Env, disconnected, sockfd, inq, hdrReads, lastCmd, calls, mem>>

\* line 439: recvall(cmd)
DlsymRecv ==
  /\ pc = "dlsym_recv"
  /\ RecvReady(DlsymSize)
  /\ IF RecvOk(DlsymSize)
     THEN \E t \in {Got(DlsymSize)} :
          \E lib \in {Limbs(Take(t[1], 8)[1])} :
          \E name \in {Opaque(Take(Take(t[1], 8)[2], MAX_PATH_LEN)[1])} :
             /\ inq' = t[2]
             /\ h' = [h EXCEPT !.payload = "done", !.data = Dlsym(lib, name)]
             /\ pc' = "dlsym_send"
     ELSE inq' = <<>> /\ h' = Leave(FALSE) /\ pc' = "ret"
  /\ UNCHANGED <<Env, disconnected, sockfd, out, hdrReads, lastCmd, calls, mem>>

\* lines 441-446: dlsym, send the address
DlsymSend ==
  /\ pc = "dlsym_send"
  /\ IF SendOk
     THEN out' = Emit(8, h.data) /\ h' = Leave(TRUE)
     ELSE out' = out /\ h' = Leave(FALSE)
  /\ pc' = "ret"
  /\ UNCHANGED <<Env, disconnected, sockfd, inq, hdrReads, lastCmd, calls, mem>>

DummyBlockAddr == N64(5)

\* lines 619-640: with __APPLE__ send &dummy_block, otherwise send nothing
DummyReplies(isApple) == isApple

GetDummyBlock ==
  /\ pc = "dummy"
  /\ IF DummyReplies(apple)
     THEN IF SendOk
          THEN out' = Emit(8, DummyBlockAddr) /\ h' = [Leave(TRUE) EXCEPT !.payload = "done"]
          ELSE out' = out /\ h' = [Leave(FALSE) EXCEPT !.payload = "done"]
     ELSE out' = out /\ h' = [Leave(TRUE) EXCEPT !.payload = "done"]
  /\ pc' = "ret"
  /\ UNCHANGED <<Env, disconnected, sockfd, inq, hdrReads, lastCmd, calls, mem>>

(* ------------------------------- CALL ---------------------------------- *)

\* the callee: returns its first argument, or 1 when called with none
FuncResult(args) == IF Len(args) >= 4 THEN SubSeq(args, 1, 4) ELSE N64(1)

\* line 472: recvall(cmd): address and argc
CallRecv ==
  /\ pc = "call_recv"
  /\ RecvReady(CallSize)
  /\ IF RecvOk(CallSize)
     THEN \E t \in {Got(CallSize)} :
       /\ inq' = t[2]
       /\ h' = [h EXCEPT !.address = Limbs(Take(t[1], 8)[1]),
                         !.argc = Limbs(Take(t[1], 8)[2])]
       /\ pc' = "call_argv"
     ELSE inq' = <<>> /\ h' = Leave(FALSE) /\ pc' = "ret"
  /\ UNCHANGED <<Env, disconnected, sockfd, out, hdrReads, lastCmd, calls, mem>>

\* lines 474-475: the byte count handed to malloc and recvall
ArgvBytes(argc) == Mul8(argc)

\* lines 479-517: the switch has a case for the arity
HasArity(argc) == IsSmall(argc) /\ Low(argc) <= MaxCallArity

\* lines 474-517: receive argv, then invoke through the arity's signature
CallArgv ==
  /\ pc = "call_argv"
  /\ \E n \in {ArgvBytes(h.argc)} :
     /\ (IsSmall(n) /\ RecvOk(Low(n))) \/ peer # "open"
     /\ IF IsSmall(n) /\ RecvOk(Low(n))
        THEN \E t \in {Got(Low(n))} :
             \E argv \in {Limbs(t[1])} :
                /\ inq' = t[2]
                /\ IF HasArity(h.argc)
                   THEN /\ calls' = Append(calls,
                             [address |-> h.address, args |-> argv])
                        /\ h' = [h EXCEPT !.payload = "done", !.nbytes = Low(n),
                                          !.data = FuncResult(argv)]
                   ELSE /\ calls' = calls
                        /\ h' = [h EXCEPT !.payload = "done", !.nbytes = Low(n),
                                          !.data = N64(0)]
                /\ pc' = "call_send"
        ELSE inq' = <<>> /\ calls' = calls /\ h' = Leave(FALSE) /\ pc' = "ret"
  /\ UNCHANGED <<Env, disconnected, sockfd, out, hdrReads, lastCmd, mem>>

\* line 519: send err
CallSend ==
  /\ pc = "call_send"
  /\ IF SendOk
     THEN out' = Emit(8, h.data) /\ h' = Leave(TRUE)
     ELSE out' = out /\ h' = Leave(FALSE)
  /\ pc' = "ret"
  /\ UNCHANGED <<Env, disconnected, sockfd, inq, hdrReads, lastCmd, calls, mem>>

(* ---------------------------- PEEK and POKE ---------------------------- *)

\* [a, a + n) lies in the mapped memory
RangeValid(a, n) ==
  /\ IsU64(a) /\ IsU64(n) /\ IsSmall(a) /\ IsSmall(n)
  /\ \A k \in 0..(Low(n) - 1) : Low(a) + k \in 1..MemSize

MemRead(a, n) == [k \in 1..n |-> mem[a + k - 1]]

\* mutant of MemWrite: the write is lost
MemKeep(a, bytes) == mem

\* the first Len(bytes) cells from a overwritten
MemWrite(a, bytes) ==
  [x \in DOMAIN mem |->
     IF x >= a /\ x < a + Len(bytes) THEN bytes[x - a + 1] ELSE mem[x]]

\* what an access to unmapped memory inside a transfer call can do
Faults == {"efault", "crash"}

\* lines 544, 557: recvall(cmd)
PeekRecv ==
  /\ pc = "peek_recv"
  /\ RecvReady(PeekSize)
  /\ IF RecvOk(PeekSize)
     THEN \E t \in {Got(PeekSize)} :
       /\ inq' = t[2]
       /\ h' = [h EXCEPT !.payload = "done",
                         !.address = Limbs(Take(t[1], 8)[1]),
                         !.size = Limbs(Take(t[1], 8)[2])]
       /\ pc' = "peek_reply"
     ELSE inq' = <<>> /\ h' = Leave(FALSE) /\ pc' = "ret"
  /\ UNCHANGED <<Env, disconnected, sockfd, out, hdrReads, lastCmd, calls, mem>>

\* lines 546-558: the reply header handle_peek sends for a range, given the
\* platform and whether the range can be read ("none": no vm_read probe)
PeekReplyTag(isApple, readable) ==
  IF isApple /\ ~readable THEN CMD_REPLY_ERROR ELSE CMD_REPLY_PEEK

PeekReply ==
  /\ pc = "peek_reply"
  /\ \E taskOk \in BOOLEAN :
       \E tag \in {PeekReplyTag(apple, RangeValid(h.address, h.size))} :
       IF apple /\ ~taskOk
       THEN out' = out /\ h' = Leave(FALSE) /\ pc' = "ret"
       ELSE IF ~SendOk
       THEN out' = out /\ h' = Leave(FALSE) /\ pc' = "ret"
       ELSE /\ out' = SendReply(tag)
            /\ IF tag = CMD_REPLY_PEEK
               THEN h' = h /\ pc' = "peek_data"
               ELSE h' = Leave(TRUE) /\ pc' = "ret"
  /\ UNCHANGED <<Env, disconnected, sockfd, inq, hdrReads, lastCmd, calls, mem>>

\* lines 550, 559: sendall((char *)cmd.address, cmd.size)
PeekData ==
  /\ pc = "peek_data"
  /\ IF RangeValid(h.address, h.size)
     THEN /\ IF SendOk
             THEN /\ out' = IF Low(h.size) > 0
                            THEN Emit(Low(h.size), MemRead(Low(h.address), Low(h.size)))
                            ELSE out
                  /\ h' = Leave(TRUE)
             ELSE out' = out /\ h' = Leave(FALSE)
          /\ pc' = "ret"
     ELSE /\ out' = out
          /\ \E f \in Faults :
               IF f = "crash" THEN h' = h /\ pc' = "crashed"
               ELSE h' = Leave(FALSE) /\ pc' = "ret"
  /\ UNCHANGED <<Env, disconnected, sockfd, inq, hdrReads, lastCmd, calls, mem>>

\* line 583: with __APPLE__, task_for_pid is checked before the payload is read
PokeEnter ==
  /\ pc = "poke_enter"
  /\ \E taskOk \in BOOLEAN :
       IF apple /\ ~taskOk
       THEN h' = Leave(FALSE) /\ pc' = "ret"
       ELSE h' = h /\ pc' = "poke_recv"
  /\ UNCHANGED <<Env, disconnected, sockfd, inq, out, hdrReads, lastCmd, calls, mem>>

\* lines 584, 600: recvall(cmd)
PokeRecv ==
  /\ pc = "poke_recv"
  /\ RecvReady(PokeSize)
  /\ IF RecvOk(PokeSize)
     THEN \E t \in {Got(PokeSize)} :
       /\ inq' = t[2]
       /\ h' = [h EXCEPT !.address = Limbs(Take(t[1], 8)[1]),
                         !.size = Limbs(Take(t[1], 8)[2])]
       /\ pc' = "poke_data"
     ELSE inq' = <<>> /\ h' = Leave(FALSE) /\ pc' = "ret"
  /\ UNCHANGED <<Env, disconnected, sockfd, out, hdrReads, lastCmd, calls, mem>>

\* received bytes as memory cells (-1: a byte the model does not track)
Cells(fs) ==
  IF Bytes(fs) # Junk \/ fs = <<>> THEN Bytes(fs)
  ELSE [k \in 1..Avail(fs) |-> -1]

\* the destination recvall writes into: with __APPLE__ a malloc'ed buffer,
\* otherwise the target address itself (lines 587-589, 601)
PokeIntoTarget(isApple) == ~isApple

\* lines 587-589, 601: receive the data bytes
PokeData ==
  /\ pc = "poke_data"
  /\ (IsSmall(h.size) /\ RecvOk(Low(h.size))) \/ peer # "open"
  /\ IF PokeIntoTarget(apple) /\ ~RangeValid(h.address, h.size)
     THEN /\ \E f \in Faults :
               IF f = "crash" THEN h' = h /\ pc' = "crashed"
               ELSE h' = Leave(FALSE) /\ pc' = "ret"
          /\ UNCHANGED <<inq, mem>>
     ELSE IF IsSmall(h.size) /\ RecvOk(Low(h.size))
     THEN \E t \in {Got(Low(h.size))} :
          /\ inq' = t[2]
          /\ mem' = IF PokeIntoTarget(apple)
                    THEN MemWrite(Low(h.address), Cells(t[1])) ELSE mem
          /\ h' = [h EXCEPT !.payload = "done", !.data = Cells(t[1])]
          /\ pc' = IF apple THEN "poke_write" ELSE "poke_reply"
     ELSE /\ inq' = <<>>
          /\ mem' = IF PokeIntoTarget(apple)
                    THEN MemWrite(Low(h.address), Cells(inq)) ELSE mem
          /\ h' = Leave(FALSE)
          /\ pc' = "ret"
  /\ acked' = <<>>
  /\ UNCHANGED <<apple, asInput, peer, nsent, nexec, hsBytes, procs, reapers, bursts, ptyOut, other, disconnected,
                 sockfd, out, hdrReads, lastCmd, calls>>

\* lines 591-598: vm_write, then REPLY_POKE or REPLY_ERROR
PokeWrite ==
  /\ pc = "poke_write"
  /\ \E ok \in {RangeValid(h.address, h.size)} :
     /\ mem' = IF ok THEN MemWrite(Low(h.address), h.data) ELSE mem
     /\ IF SendOk
        THEN /\ out' = SendReply(IF ok THEN CMD_REPLY_POKE ELSE CMD_REPLY_ERROR)
             /\ h' = Leave(TRUE)
        ELSE out' = out /\ h' = Leave(FALSE)
     /\ acked' = IF ok /\ SendOk THEN <<h.address, h.data>> ELSE <<>>
  /\ pc' = "ret"
  /\ UNCHANGED <<apple, asInput, peer, nsent, nexec, hsBytes, procs, reapers, bursts, ptyOut, other, disconnected,
                 sockfd, inq, hdrReads, lastCmd, calls>>

\* line 602: send_reply(REPLY_POKE)
PokeReply ==
  /\ pc = "poke_reply"
  /\ IF SendOk
     THEN out' = SendReply(CMD_REPLY_POKE) /\ h' = Leave(TRUE)
     ELSE out' = out /\ h' = Leave(FALSE)
  /\ acked' = IF SendOk THEN <<h.address, h.data>> ELSE <<>>
  /\ pc' = "ret"
  /\ UNCHANGED <<apple, asInput, peer, nsent, nexec, hsBytes, procs, reapers, bursts, ptyOut, other, disconnected,
                 sockfd, inq, hdrReads, lastCmd, calls, mem>>

(* -------------------------------- EXEC --------------------------------- *)

BUFFERSIZE == 65536

\* what one burst of child output puts on the PTY master
BurstBytes == <<111, 107>>

\* the wait status of a child that exited
ExitStatus == N32(0)

IsBackground(b) == b # <<0>>

\* the pid posix_spawnp gives the next child
NextPid == CHOOSE p \in Pids : procs[p] = "none" /\ \A q \in Pids : q < p => procs[q] # "none"

\* the child of the EXEC in progress (0: none)
CurChild == IF h.cmd = CMD_EXEC /\ h.pid # INVALID_PID THEN Low(h.pid) ELSE 0

\* the child has not exited
Alive(p) == procs[p] \in {"running", "hupwait"}

\* what a spawned child can be: one that exits on its own, or, with a
\* terminal, one that exits only when the terminal is hung up
ChildKinds(bg) == IF IsBackground(bg) THEN {"running"} ELSE {"running", "hupwait"}

\* line 236: recvall(background)
ExecBackground ==
  /\ pc = "x_bg"
  /\ RecvReady(1)
  /\ IF RecvOk(1)
     THEN \E t \in {Got(1)} :
       /\ inq' = t[2]
       /\ h' = [h EXCEPT !.background = Bytes(t[1])]
       /\ pc' = "x_argc"
     ELSE inq' = <<>> /\ h' = h /\ pc' = "x_err"
  /\ UNCHANGED <<Env, disconnected, sockfd, out, hdrReads, lastCmd, calls, mem>>

\* line 239: CHECK(argc > 0)
ArgcAccepted(argc) == argc # N32(0)

\* lines 238-244: recvall(argc), reject argc = 0, allocate argv
ExecArgc ==
  /\ pc = "x_argc"
  /\ RecvReady(4)
  /\ IF RecvOk(4)
     THEN \E t \in {Got(4)} :
          \E argc \in {Limbs(t[1])} :
             /\ inq' = t[2]
             /\ h' = [h EXCEPT !.argc = argc, !.stage = "argv", !.i = 0,
                               !.slots = IF ArgcAccepted(argc)
                                         THEN VecSlots(argc) ELSE h.slots]
             /\ pc' = IF ArgcAccepted(argc) THEN "x_len" ELSE "x_err"
     ELSE inq' = <<>> /\ h' = h /\ pc' = "x_err"
  /\ UNCHANGED <<Env, disconnected, sockfd, out, hdrReads, lastCmd, calls, mem>>

\* the count of the vector being read
Count == IF h.stage = "argv" THEN h.argc ELSE h.envc

\* lines 249-254, 270-275: recvall(len), allocate the string and store its
\* pointer in element i of the vector
ExecLen ==
  /\ pc = "x_len"
  /\ RecvReady(4)
  /\ IF RecvOk(4)
     THEN \E t \in {Got(4)} :
          \E len \in {Limbs(t[1])} :
          \E got \in MallocResults(StrSize(len)) :
             /\ inq' = t[2]
             /\ h' = [h EXCEPT !.len = len, !.cap = StrSize(len),
                               !.vecWrite = h.i, !.strEnd = 0]
             /\ pc' = IF got = "block" THEN "x_str" ELSE "x_err"
     ELSE inq' = <<>> /\ h' = h /\ pc' = "x_err"
  /\ UNCHANGED <<Env, disconnected, sockfd, out, hdrReads, lastCmd, calls, mem>>

\* lines 256-258, 277-279: recvall(len bytes), terminate, next element;
\* a recvall that fails has stored the bytes that had arrived
ExecStr ==
  /\ pc = "x_str"
  /\ (IsSmall(h.len) /\ RecvOk(Low(h.len))) \/ peer # "open"
  /\ IF IsSmall(h.len) /\ RecvOk(Low(h.len))
     THEN \E t \in {Got(Low(h.len))} :
       /\ inq' = t[2]
       /\ h' = [h EXCEPT !.i = h.i + 1,
                         !.strEnd = Low(h.len) + 1,
                         !.payload = IF h.stage = "envp" /\ ~Below(h.i + 1, Count)
                                     THEN "done" ELSE "reading"]
       /\ pc' = IF Below(h.i + 1, Count) THEN "x_len"
                ELSE IF h.stage = "argv" THEN "x_envc" ELSE "x_spawn"
     ELSE /\ inq' = <<>>
          /\ h' = [h EXCEPT !.strEnd = Avail(inq)]
          /\ pc' = "x_err"
  /\ UNCHANGED <<Env, disconnected, sockfd, out, hdrReads, lastCmd, calls, mem>>

\* lines 260-265: recvall(envc), allocate envp
ExecEnvc ==
  /\ pc = "x_envc"
  /\ RecvReady(4)
  /\ IF RecvOk(4)
     THEN \E t \in {Got(4)} :
          \E envc \in {Limbs(t[1])} :
             /\ inq' = t[2]
             /\ h' = [h EXCEPT !.envc = envc, !.stage = "envp", !.i = 0,
                               !.slots = VecSlots(envc),
                               !.payload = IF Below(0, envc) THEN "reading" ELSE "done"]
             /\ pc' = IF Below(0, envc) THEN "x_len" ELSE "x_spawn"
     ELSE inq' = <<>> /\ h' = h /\ pc' = "x_err"
  /\ UNCHANGED <<Env, disconnected, sockfd, out, hdrReads, lastCmd, calls, mem>>

\* how internal_spawn can end: spawned; failed with no PTY master opened;
\* failed after the master was opened (interactive only)
SpawnOutcomes(bg) ==
  IF IsBackground(bg) THEN {"spawned", "failed"}
  ELSE {"spawned", "failed", "failed_pty"}

\* lines 130-199: *pid after internal_spawn
SpawnPid(o, p) == IF o = "spawned" THEN N32(p) ELSE INVALID_PID

\* lines 130-199: *master_fd after internal_spawn: -1, an open descriptor,
\* or the number of a descriptor internal_spawn has closed (lines 192-195)
SpawnMaster(o, bg) ==
  IF o = "failed_pty" THEN "stale"
  ELSE IF o = "spawned" /\ ~IsBackground(bg) THEN "open"
  ELSE "none"

\* line 281: internal_spawn
ExecSpawn ==
  /\ pc = "x_spawn"
  /\ \E o \in SpawnOutcomes(h.background) :
       /\ h' = [h EXCEPT !.pid = SpawnPid(o, NextPid),
                         !.master = SpawnMaster(o, h.background),
                         !.spawned = (o = "spawned"),
                         !.closes = IF o = "failed_pty" THEN 1 ELSE 0]
       /\ IF o = "spawned"
          THEN /\ \E kind \in ChildKinds(h.background) :
                    procs' = [procs EXCEPT ![NextPid] = kind]
               /\ bursts' = 0
               /\ ptyOut' = 0
               /\ pc' = "x_sendpid"
          ELSE /\ UNCHANGED <<procs, bursts, ptyOut>>
               /\ pc' = "x_err"
  /\ UNCHANGED <<hsBytes, apple, asInput, other, acked, peer, nsent, nexec, reapers, disconnected, sockfd, inq, out,
                 hdrReads, lastCmd, calls, mem>>

\* mutant of AfterPid: every EXEC runs the pump
AlwaysPump(bg) == "x_select"

\* lines 284-291: if (background) create the reaper thread, else run the pump
AfterPid(bg) == IF IsBackground(bg) THEN "x_thread" ELSE "x_select"

\* lines 282-291: send the pid, then branch on background
ExecSendPid ==
  /\ pc = "x_sendpid"
  /\ IF SendOk
     THEN /\ out' = Emit(4, h.pid)
          /\ pc' = AfterPid(h.background)
     ELSE out' = out /\ pc' = "x_err"
  /\ UNCHANGED <<Env, h, disconnected, sockfd, inq, hdrReads, lastCmd, calls, mem>>

\* line 286: pthread_create(thread_waitpid, pid)
ExecThread ==
  /\ pc = "x_thread"
  /\ \E created \in BOOLEAN :
       /\ reapers' = IF created THEN reapers \cup {Low(h.pid)} ELSE reapers
       /\ h' = Leave(created)
  /\ pc' = "x_err"
  /\ UNCHANGED <<hsBytes, apple, asInput, other, acked, peer, nsent, nexec, procs, bursts, ptyOut, disconnected, sockfd,
                 inq, out, hdrReads, lastCmd, calls, mem>>

MasterReadable == ptyOut > 0 \/ ~Alive(CurChild)
SockReadable == Avail(inq) > 0 \/ peer # "open"

\* lines 302-306: select on master and socket; errfds is passed uninitialised,
\* so the call may also fail
ExecSelect ==
  /\ pc = "x_select"
  /\ \E ok \in BOOLEAN :
       IF ok
       THEN /\ MasterReadable \/ SockReadable
            /\ h' = [h EXCEPT !.rdM = MasterReadable, !.rdS = SockReadable]
            /\ pc' = IF MasterReadable THEN "x_master" ELSE "x_sock"
       ELSE h' = h /\ pc' = "x_err"
  /\ UNCHANGED <<Env, disconnected, sockfd, inq, out, hdrReads, lastCmd, calls, mem>>

\* lines 308-315: read(master); fewer than 1 byte ends the pump
ExecReadMaster ==
  /\ pc = "x_master"
  /\ IF ptyOut > 0
     THEN /\ ptyOut' = ptyOut - 1
          /\ h' = [h EXCEPT !.nbytes = Len(BurstBytes), !.data = BurstBytes,
                            !.fromPty = h.fromPty \o BurstBytes]
          /\ pc' = "x_chunkhdr"
     ELSE /\ ptyOut' = ptyOut
          /\ h' = h
          /\ pc' = "x_wait"
  /\ UNCHANGED <<hsBytes, apple, asInput, other, acked, peer, nsent, nexec, procs, reapers, bursts, disconnected, sockfd,
                 inq, out, hdrReads, lastCmd, calls, mem>>

ChunkHeader(type, size) == N32(type) \o N32(size)

\* lines 319-323: send the STDOUT chunk header
ExecChunkHeader ==
  /\ pc = "x_chunkhdr"
  /\ IF SendOk
     THEN /\ out' = Emit(ChunkHeaderSize, ChunkHeader(CMD_EXEC_CHUNK_TYPE_STDOUT, h.nbytes))
          /\ pc' = "x_chunkdata"
     ELSE out' = out /\ pc' = "x_err"
  /\ UNCHANGED <<Env, h, disconnected, sockfd, inq, hdrReads, lastCmd, calls, mem>>

\* line 324: send the chunk's bytes
ExecChunkData ==
  /\ pc = "x_chunkdata"
  /\ IF SendOk
     THEN /\ out' = Emit(h.nbytes, h.data)
          /\ pc' = IF h.rdS THEN "x_sock" ELSE "x_select"
     ELSE out' = out /\ pc' = "x_err"
  /\ UNCHANGED <<Env, h, disconnected, sockfd, inq, hdrReads, lastCmd, calls, mem>>

\* lines 327-333: recv(sockfd, buf, BUFFERSIZE); fewer than 1 byte ends the pump
ExecRecvSock ==
  /\ pc = "x_sock"
  /\ IF Avail(inq) > 0
     THEN \E n \in {IF Avail(inq) < BUFFERSIZE THEN Avail(inq) ELSE BUFFERSIZE} :
          \E t \in {Got(n)} :
             /\ inq' = t[2]
             /\ h' = [h EXCEPT !.nbytes = n, !.data = Cells(t[1]),
                               !.fromSock = h.fromSock \o Cells(t[1])]
             /\ pc' = "x_write"
     ELSE /\ inq' = inq
          /\ h' = h
          /\ pc' = IF peer = "open" THEN "x_select" ELSE "x_wait"
  /\ UNCHANGED <<Env, disconnected, sockfd, out, hdrReads, lastCmd, calls, mem>>

\* mutant of Forwarded: the last byte received is not written
ForwardedShort(buf, n) == SubSeq(buf, 1, n - 1)

\* line 337: the bytes writeall(master, buf, nbytes) writes
Forwarded(buf, n) == SubSeq(buf, 1, n)

\* line 337: writeall(master, buf, nbytes)
ExecWriteMaster ==
  /\ pc = "x_write"
  /\ \E ok \in BOOLEAN :
       /\ ok \/ ~Alive(CurChild)
       /\ h' = IF ok THEN [h EXCEPT !.toPty = h.toPty \o Forwarded(h.data, h.nbytes)]
               ELSE h
       /\ pc' = IF ok THEN "x_select" ELSE "x_err"
  /\ UNCHANGED <<Env, disconnected, sockfd, inq, out, hdrReads, lastCmd, calls, mem>>

\* lines 341-343: waitpid(pid) returns once the child has exited
ExecWait ==
  /\ pc = "x_wait"
  /\ procs[CurChild] = "zombie"
  /\ procs' = [procs EXCEPT ![CurChild] = "reaped"]
  /\ h' = [h EXCEPT !.reaped = TRUE]
  /\ pc' = "x_exithdr"
  /\ UNCHANGED <<hsBytes, apple, asInput, other, acked, peer, nsent, nexec, reapers, bursts, ptyOut, disconnected, sockfd,
                 inq, out, hdrReads, lastCmd, calls, mem>>

\* lines 345-349: send the EXITCODE chunk header
ExecExitHeader ==
  /\ pc = "x_exithdr"
  /\ IF SendOk
     THEN /\ out' = Emit(ChunkHeaderSize, ChunkHeader(CMD_EXEC_CHUNK_TYPE_EXITCODE, 4))
          /\ pc' = "x_exitdata"
     ELSE out' = out /\ pc' = "x_err"
  /\ UNCHANGED <<Env, h, disconnected, sockfd, inq, hdrReads, lastCmd, calls, mem>>

\* lines 350-353: send the wait status; success
ExecExitData ==
  /\ pc = "x_exitdata"
  /\ IF SendOk
     THEN out' = Emit(4, ExitStatus) /\ h' = Leave(TRUE)
     ELSE out' = out /\ h' = h
  /\ pc' = "x_err"
  /\ UNCHANGED <<Env, disconnected, sockfd, inq, hdrReads, lastCmd, calls, mem>>

\* mutant of NotifiesInvalidPid: the epilogue never notifies the client
NeverNotifies(pid) == FALSE

\* line 361: the epilogue notifies the client when pid is still INVALID_PID
NotifiesInvalidPid(pid) == pid = INVALID_PID

\* line 393: the epilogue closes master when it is not -1
ClosesMaster(m) == m # "none"

\* lines 355-402: the error label: notify, free, close master, return
ExecEpilogue ==
  /\ pc = "x_err"
  /\ out' = IF NotifiesInvalidPid(h.pid) /\ SendOk THEN Emit(4, h.pid) ELSE out
  /\ h' = [h EXCEPT !.master = IF ClosesMaster(h.master) THEN "closed" ELSE h.master,
                    !.closes = IF ClosesMaster(h.master) THEN h.closes + 1 ELSE h.closes]
  /\ other' = IF ClosesMaster(h.master) /\ h.master = "stale" /\ other = "open"
              THEN "closed" ELSE other
  /\ pc' = "ret"
  /\ UNCHANGED <<apple, asInput, peer, nsent, nexec, hsBytes, procs, reapers, bursts, ptyOut, acked, disconnected,
                 sockfd, inq, hdrReads, lastCmd, calls, mem>>

(* ------------------------- children and reapers ------------------------ *)

\* the child of the interactive EXEC in progress writes to its terminal
ChildWrite ==
  /\ CurChild # 0
  /\ h.master = "open"
  /\ Alive(CurChild)
  /\ bursts < MaxBursts
  /\ bursts' = bursts + 1
  /\ ptyOut' = ptyOut + 1
  /\ UNCHANGED <<hsBytes, apple, asInput, other, acked, peer, nsent, nexec, procs, reapers, pc, h, disconnected, sockfd,
                 inq, out, hdrReads, lastCmd, calls, mem>>

\* the PTY master of child p's terminal is still open in the server
MasterHeld(p) == CurChild = p /\ h.master = "open"

\* a child exits and stays a zombie until it is waited for
ChildExit ==
  /\ \E p \in Pids :
       /\ \/ procs[p] = "running"
          \/ procs[p] = "hupwait" /\ ~MasterHeld(p)
       /\ procs' = [procs EXCEPT ![p] = "zombie"]
  /\ UNCHANGED <<hsBytes, apple, asInput, other, acked, peer, nsent, nexec, reapers, bursts, ptyOut, pc, h, disconnected,
                 sockfd, inq, out, hdrReads, lastCmd, calls, mem>>

\* mutant of ReaperSends: the thread reports the child's status to the client
ReaperNotifies(p) ==
  <<[w |-> 4, v |-> ExitStatus, by |-> -2, at |-> hdrReads, k |-> "raw"]>>

\* lines 215-220: what thread_waitpid sends on the socket: nothing
ReaperSends(p) == <<>>

\* lines 215-220: thread_waitpid
ThreadWaitpid ==
  /\ \E p \in reapers :
       /\ procs[p] = "zombie"
       /\ procs' = [procs EXCEPT ![p] = "reaped"]
       /\ out' = out \o ReaperSends(p)
  /\ UNCHANGED <<hsBytes, apple, asInput, other, acked, peer, nsent, nexec, reapers, bursts, ptyOut, pc, h,
                 disconnected, sockfd, inq, hdrReads, lastCmd, calls, mem>>

(* ------------------------------ the acceptor --------------------------- *)

\* main, lines 803-817: accept gives the new connection the lowest free
\* descriptor number; while the handler holds the number of a master that
\* internal_spawn has closed, that is the number the new socket gets
Accept ==
  /\ h.master = "stale"
  /\ other = "none"
  /\ other' = "open"
  /\ UNCHANGED <<apple, asInput, acked, pc, h, disconnected, sockfd, inq, peer, hsBytes, out,
                 nsent, nexec, hdrReads, lastCmd, calls, mem, procs, reapers,
                 bursts, ptyOut>>

(* --------------------------- the specification ------------------------- *)

Init ==
  /\ apple \in BOOLEAN
  /\ pc = "hs_magic"
  /\ h = H0
  /\ disconnected = FALSE
  /\ sockfd = "open"
  /\ inq = <<>>
  /\ peer = "open"
  /\ hsBytes = 0
  /\ out = <<>>
  /\ nsent = 0
  /\ nexec = 0
  /\ hdrReads = 0
  /\ lastCmd = -1
  /\ calls = <<>>
  /\ mem = [a \in 1..MemSize |-> 0]
  /\ other = "none"
  /\ acked = <<>>
  /\ asInput = FALSE
  /\ procs = [p \in Pids |-> "none"]
  /\ reapers = {}
  /\ bursts = 0
  /\ ptyOut = 0

Client == ClientSend \/ ClientSendPart \/ ClientClose \/ ClientReset

Handshake == HsMagic \/ HsName

Dispatcher == ReadHeader \/ HandlerReturn \/ ErrorExit

Loader == DlopenRecv \/ DlopenSend \/ DlsymRecv \/ DlsymSend \/ GetDummyBlock

Call == CallRecv \/ CallArgv \/ CallSend

PeekPoke ==
  PeekRecv \/ PeekReply \/ PeekData \/ PokeEnter \/ PokeRecv \/ PokeData
    \/ PokeWrite \/ PokeReply

Exec ==
  ExecBackground \/ ExecArgc \/ ExecLen \/ ExecStr \/ ExecEnvc \/ ExecSpawn
    \/ ExecSendPid \/ ExecThread \/ ExecSelect \/ ExecReadMaster
    \/ ExecChunkHeader \/ ExecChunkData \/ ExecRecvSock \/ ExecWriteMaster
    \/ ExecWait \/ ExecExitHeader \/ ExecExitData \/ ExecEpilogue

Children == ChildWrite \/ ChildExit \/ ThreadWaitpid

Next ==
  Client \/ Handshake \/ Dispatcher \/ Loader \/ Call \/ PeekPoke \/ Exec
    \/ Children \/ Accept

Spec == Init /\ [][Next]_vars

\* the steps of the connection's thread
Server == Handshake \/ Dispatcher \/ Loader \/ Call \/ PeekPoke \/ Exec

\* the threads of the server are scheduled, and a child that can exit does
SpecLive ==
  /\ Spec
  /\ WF_vars(Server)
  /\ WF_vars(ThreadWaitpid)
  /\ WF_vars(ChildExit)

(* ------------------- the prologue of handle_exec alone ----------------- *)

\* the counts and lengths a client announces
Counts == {N32(0), N32(1), N32(2), Max32}
Lens == {N32(0), N32(Len(ArgBytes)), Max32}

\* a length and the bytes the client sends after it
StrOf(len) ==
  <<Fld(4, len)>> \o (IF len = N32(0) THEN <<>> ELSE <<Fld(Len(ArgBytes), ArgBytes)>>)

\* the payloads of an interactive EXEC request: argc, n strings, envc, m
\* strings
ExecPayloads ==
  {<<Fld(1, <<0>>), Fld(4, argc)>> \o Rep(StrOf(len), n)
     \o <<Fld(4, envc)>> \o Rep(StrOf(len), m) :
       argc \in Counts, envc \in Counts, len \in Lens,
       n \in 0..MaxStrs, m \in 0..MaxStrs}

\* the dispatcher has read the header of the first frame, an EXEC, and the
\* client has sent a payload and perhaps closed
InitExec ==
  /\ apple \in BOOLEAN
  /\ pc = "x_bg"
  /\ h = [H0 EXCEPT !.cmd = CMD_EXEC, !.payload = "reading"]
  /\ disconnected = FALSE
  /\ sockfd = "open"
  /\ inq \in ExecPayloads
  /\ peer \in {"open", "closed"}
  /\ hsBytes = 4 + UNAME_VERSION_LEN
  /\ out = <<>>
  /\ nsent = 1
  /\ nexec = 1
  /\ hdrReads = 1
  /\ lastCmd = CMD_EXEC
  /\ calls = <<>>
  /\ mem = [a \in 1..MemSize |-> 0]
  /\ other = "none"
  /\ acked = <<>>
  /\ asInput = FALSE
  /\ procs = [p \in Pids |-> "none"]
  /\ reapers = {}
  /\ bursts = 0
  /\ ptyOut = 0

\* lines 236-279: the receives and allocations before internal_spawn
ExecPrologue == ExecBackground \/ ExecArgc \/ ExecLen \/ ExecStr \/ ExecEnvc

SpecExec == InitExec /\ [][ExecPrologue]_vars

(* ------------------------------- claims -------------------------------- *)

\* C1: a handler that fails while it is still reading its payload sends the
\* dispatcher to CLOSED: the dispatcher never goes back to reading a header
\* after such a failure.
C1_PayloadFailureCloses ==
  [][(pc = "ret" /\ ~h.result /\ h.payload = "reading" /\ pc' # pc)
       => pc' = "error"]_vars

\* C2: one handler at a time.  Everything sent since the last handler
\* returned was sent by the handler in progress, after the last header read;
\* the dispatcher is about to read a header only when no handler is in
\* progress and nothing of a reply is outstanding.  In particular every
\* byte sent during an EXEC belongs to that EXEC.
C2_OneHandlerAtATime ==
  /\ \A k \in 1..Len(out) : out[k].by = h.cmd /\ out[k].at = hdrReads
  /\ pc = "ready" => h.cmd = -1 /\ out = <<>>
  /\ h.cmd # -1 => pc \notin {"hs_magic", "hs_name", "ready"}

\* an interactive EXEC has sent its pid, a STDOUT chunk and its EXITCODE chunk
C2_Witness ==
  /\ pc = "ret" /\ h.cmd = CMD_EXEC /\ h.result
  /\ ~IsBackground(h.background)
  /\ Len(out) = 5

ExitChunkHeader == ChunkHeader(CMD_EXEC_CHUNK_TYPE_EXITCODE, 4)

\* C3: an interactive EXEC whose child was spawned and whose pid was sent
\* returns, on a live connection, only after it has reaped the child and
\* sent exactly one EXITCODE chunk, the last thing it sent.
C3_ExitCodeHoweverPumpEnds ==
  (/\ pc = "ret" /\ h.cmd = CMD_EXEC /\ ~IsBackground(h.background)
   /\ h.spawned /\ Len(out) >= 1 /\ out[1].v = h.pid /\ peer # "reset")
    => /\ h.reaped
       /\ Len(out) >= 3
       /\ out[Len(out) - 1].v = ExitChunkHeader
       /\ out[Len(out)].w = 4 /\ out[Len(out)].v = ExitStatus
       /\ Cardinality({k \in 1..Len(out) : out[k].v = ExitChunkHeader}) = 1

\* argc * 8 as a number of 80 bits: the bytes a CALL announces
Times8(x) == Mul8(x) \o <<Mul8Carry(x)>>

\* the argument words the client sends, as the handler receives them
FlatArgs(n) == Limbs([k \in 1..n |-> Fld(8, N64(k))])

\* C4: a CALL with argc in 0..11 invokes the address once with the argc
\* words announced, in order, and sends one 8-byte result; with argc > 11
\* nothing is invoked and exactly argc * 8 bytes of argv are consumed, so
\* the stream stays on a frame boundary.
C4_CallArity ==
  /\ pc = "call_send" =>
       IF HasArity(h.argc)
       THEN /\ Len(calls) = 1
            /\ calls[1].address = h.address
            /\ calls[1].args = FlatArgs(Low(h.argc))
            /\ h.nbytes = 8 * Low(h.argc)
       ELSE /\ calls = <<>>
            /\ N64(h.nbytes) \o <<0>> = Times8(h.argc)
            /\ AlignedAt(inq)
  /\ (pc = "ret" /\ h.cmd = CMD_CALL /\ h.result) => Len(out) = 1 /\ out[1].w = 8

\* C5: a PEEK whose payload was received is answered, on a live connection,
\* by REPLY_PEEK and exactly size bytes, or by REPLY_ERROR and nothing else.
C5_PeekAlwaysReplied ==
  (/\ pc \in {"ret", "crashed"} /\ h.cmd = CMD_PEEK /\ h.payload = "done"
   /\ peer # "reset")
    => \/ /\ Len(out) = 2
          /\ out[1].v = ReplyHeader(CMD_REPLY_PEEK)
          /\ N64(out[2].w) = h.size
       \/ /\ Len(out) = 1
          /\ out[1].v = ReplyHeader(CMD_REPLY_ERROR)

\* C6: after a DLCLOSE header the dispatcher is back at reading a header
\* only with the stream on a frame boundary (the 8-byte payload consumed).
C6_DlcloseKeepsAligned ==
  (pc = "ready" /\ lastCmd = CMD_DLCLOSE) => AlignedAt(inq)

\* C7: when the connection ended on a client close seen by the header read,
\* the connection's socket descriptor is closed.
C7_DisconnectReleasesSocket ==
  (pc = "closed" /\ disconnected) => sockfd = "closed"

\* the header the dispatcher is about to read
NextHeader == Take(inq, HeaderSize)[1]

\* C8: a complete header with a bad magic or with the CLOSE tag takes the
\* dispatcher from READY to its exit without a handler being called or a
\* byte being sent; the exit closes the socket; after it no header is read
\* and nothing is sent.
C8_BadMagicOrCloseEnds ==
  [][/\ (/\ pc = "ready" /\ RecvOk(HeaderSize) /\ hdrReads' # hdrReads
         /\ \/ HeaderMagic(NextHeader) # MAGIC
            \/ CmdOf(HeaderCmd(NextHeader)) = CMD_CLOSE)
          => (pc' = "error" /\ h' = h /\ out' = out /\ ~disconnected')
     /\ (pc = "error" /\ pc' # pc)
          => /\ pc' = "closed" /\ h' = h /\ out' = out /\ hdrReads' = hdrReads
             /\ ~disconnected => sockfd' = "closed"
     /\ pc = "closed"
          => (pc' = "closed" /\ h' = h /\ out' = out /\ hdrReads' = hdrReads
              /\ sockfd' = sockfd)]_vars

\* the client sent CLOSE and the server closed the connection on it
C8_Witness ==
  /\ pc = "closed" /\ sockfd = "closed" /\ peer = "open"
  /\ lastCmd = CMD_CLOSE /\ out = <<>>

\* C9: the dispatcher reads a header only after the handshake has sent
\* exactly 4 + 256 bytes; when a handshake send fails no header is ever read
\* and the connection is closed.
C9_HandshakeShape ==
  /\ pc = "hs_magic" => hsBytes = 0
  /\ pc = "hs_name" => hsBytes = 4
  /\ (pc \notin {"hs_magic", "hs_name"} /\ hsBytes # 4 + 256)
       => (pc \in {"error", "closed"} /\ hdrReads = 0)
  /\ hdrReads > 0 => hsBytes = 4 + 256

\* a header was read, after the whole handshake
C9_Witness == hdrReads > 0 /\ hsBytes = 4 + 256 /\ lastCmd = CMD_PEEK

\* C10: when the payload of an EXEC was read and the spawn fails, no child
\* exists, the response on a live connection is the one uint32 0xffffffff,
\* and the dispatcher goes back to READY with the socket open; 0xffffffff is
\* never sent by an EXEC that spawned a child.
C10_SpawnFailure ==
  [][/\ (pc = "x_spawn" /\ pc' = "x_err")
          => (h'.pid = INVALID_PID /\ ~h'.spawned /\ procs' = procs /\ out' = out)
     /\ (/\ pc = "x_err" /\ pc' = "ret" /\ h.payload = "done" /\ ~h.spawned
         /\ SendOk)
          => (Len(out') = 1 /\ out'[1].w = 4 /\ out'[1].v = INVALID_PID)
     /\ (/\ pc = "ret" /\ h.cmd = CMD_EXEC /\ h.payload = "done" /\ ~h.spawned
         /\ pc' # pc)
          => (pc' = "ready" /\ sockfd' = "open" /\ disconnected' = FALSE)
     /\ \A k \in 1..Len(out') :
          (out'[k].by = CMD_EXEC /\ out'[k].v = INVALID_PID) => ~h'.spawned]_vars

\* the spawn failed and the client was sent 0xffffffff and nothing else
C10_Witness ==
  /\ pc = "ret" /\ h.cmd = CMD_EXEC /\ h.payload = "done" /\ ~h.spawned
  /\ Len(out) = 1 /\ out[1].v = INVALID_PID /\ peer = "open"

\* a background EXEC whose child was spawned is in progress
BgSpawned ==
  h.cmd = CMD_EXEC /\ h.spawned /\ h.background # Junk /\ h.background # <<0>>

C12_PokePeekRoundTrip ==
  (/\ pc = "ret" /\ h.cmd = CMD_PEEK /\ h.result
   /\ acked # <<>> /\ h.address = acked[1] /\ h.size = N64(Len(acked[2])))
    => /\ Len(out) = 2
       /\ out[1].k = "reply" /\ out[1].v = MAGIC \o N32(CMD_REPLY_PEEK)
       /\ out[2].w = Len(acked[2]) /\ out[2].v = acked[2]

\* a PEEK has returned the bytes an acknowledged POKE wrote
C12_Witness ==
  /\ pc = "ret" /\ h.cmd = CMD_PEEK /\ h.result
  /\ acked = <<N64(1), PokeBytes>> /\ h.address = acked[1]
  /\ Len(out) = 2 /\ out[2].v = PokeBytes

\* C13: every GET_DUMMY_BLOCK request is answered, on a live connection and
\* on every platform, with exactly one uint64 before the dispatcher reads
\* the next header; the value is zero where there is no dummy block.
C13_DummyBlockAlwaysReplies ==
  (pc = "ret" /\ h.cmd = CMD_GET_DUMMY_BLOCK /\ peer # "reset")
    => /\ Len(out) = 1 /\ out[1].w = 8
       /\ ~apple => out[1].v = N64(0)

\* C14: an error on this connection (here: a failed spawn) never closes a
\* descriptor owned by another connection.
C14_ErrorsStayLocal == other # "closed"

ReplyTags == {CMD_REPLY_ERROR, CMD_REPLY_PEEK, CMD_REPLY_POKE}

\* C15: every frame header the server sends has the magic 0x12345678 and a
\* cmd_type among REPLY_ERROR, REPLY_PEEK, REPLY_POKE, never a client
\* command's tag.
C15_ReplyHeaders ==
  \A k \in 1..Len(out) :
    out[k].k = "reply" =>
      /\ out[k].w = 8 /\ Len(out[k].v) = 4
      /\ SubSeq(out[k].v, 1, 2) = MAGIC
      /\ CmdOf(SubSeq(out[k].v, 3, 4)) \in ReplyTags

\* the server has sent a REPLY_ERROR header
C15_Witness ==
  \E k \in 1..Len(out) :
    out[k].k = "reply" /\ out[k].v = MAGIC \o N32(CMD_REPLY_ERROR)

\* an item the server sent is the header of a STDOUT exec chunk
IsStdoutHeader(x) ==
  /\ x.w = ChunkHeaderSize /\ Len(x.v) = 4
  /\ SubSeq(x.v, 1, 2) = N32(CMD_EXEC_CHUNK_TYPE_STDOUT)

\* the payloads of the STDOUT chunks among the items o, concatenated
RECURSIVE StdoutPayloads(_)
StdoutPayloads(o) ==
  IF Len(o) < 2 THEN <<>>
  ELSE IF IsStdoutHeader(o[1])
       THEN o[2].v \o StdoutPayloads(SubSeq(o, 3, Len(o)))
       ELSE StdoutPayloads(Tail(o))

IsPrefix(a, b) == Len(a) <= Len(b) /\ a = SubSeq(b, 1, Len(a))

\* the pump of an interactive EXEC is between two transfers
PumpIdle == pc \in {"x_select", "x_wait", "x_exithdr", "x_exitdata"}

C17_PokeWritesAfterAllData ==
  [][(pc = "poke_data" /\ pc' = "ret" /\ ~h'.result)
       => (mem' = mem /\ out' = out)]_vars

\* C18: when an EXEC returns, a PTY master it opened is closed and close was
\* called exactly once on its number.
C18_MasterClosedOnce ==
  (pc = "ret" /\ h.cmd = CMD_EXEC /\ h.master # "none")
    => (h.master = "closed" /\ h.closes = 1)

\* the client has closed its socket while the pump of an interactive EXEC
\* runs
ClientGoneInPump ==
  /\ peer = "closed" /\ h.cmd = CMD_EXEC /\ h.spawned /\ h.master = "open"
  /\ pc \in {"x_select", "x_master", "x_chunkhdr", "x_chunkdata", "x_sock", "x_write"}

\* C19: after the client closes its socket during an interactive EXEC the
\* handler eventually returns and the connection reaches CLOSED, whatever
\* the child is, including a child that exits only when its terminal is
\* hung up.
C19_ClientCloseEndsExec == ClientGoneInPump ~> (pc = "closed")

\* C20: every spawned child that has exited is eventually waited for, on
\* every exit path of handle_exec.
C20_EveryChildReaped ==
  \A p \in Pids : (procs[p] = "zombie") ~> (procs[p] = "reaped")

\* C21: no byte the client sent between the pid of an interactive EXEC and
\* that EXEC's EXITCODE chunk is read by the dispatcher as a frame header,
\* also when the pump has ended on the terminal's end of file: once the
\* child has been waited for, the header the dispatcher reads is never made
\* of such bytes.
C21_InputNeverDispatched ==
  [][(/\ pc = "ready" /\ hdrReads' = hdrReads + 1 /\ RecvOk(HeaderSize)
      /\ \E p \in Pids : procs[p] = "reaped") => ~asInput]_vars

\* C22: for every 32-bit argc, envc and len the client announces, 0xFFFFFFFF
\* included, the element of argv/envp written last lies inside the slots
\* allocated for the vector, and the bytes written to a string buffer (the
\* received bytes and the NUL at index len) lie inside the bytes allocated
\* for it.
C22_WritesInsideAllocations ==
  /\ h.vecWrite >= 0 => Below(h.vecWrite, h.slots)
  /\ ~IsSmall(h.cap) \/ h.strEnd <= Low(h.cap)

====
